---- MODULE Spec2Model ----
(***************************************************************************)
(* Model of ophyd/userapi/scan_api.py: the N-dimensional trajectory        *)
(* generator (ScanND.__call__, calculatePath) and the scan life cycle      *)
(* (Scan.run with the AScan / DScan pre- and post-scan hooks).             *)
(*                                                                         *)
(* Numbers are exact rationals [n |-> numerator, d |-> denominator] in     *)
(* lowest terms, so that np.linspace is modelled by what it computes       *)
(* (floating point rounding is not modelled).                              *)
(***************************************************************************)
EXTENDS Integers, Sequences, FiniteSets, TLC

\* ------------------------------------------------------------------ bounds
MaxDim == 2        \* largest number of dimensions of a generated scan
MaxCount == 2      \* largest sample count (number of intervals) of a dimension
MaxRuns == 2       \* run() invocations followed on one Scan instance
MaxPolls == 2      \* poll intervals a positioner may stay in motion

Positioner == {"m1", "m2"}
StartValues == {0, 1}
StopValues == {1, 10}
InitialPositions == {0, 3}

\* ------------------------------------------------------- exact arithmetic
Abs(x) == IF x < 0 THEN -x ELSE x

RECURSIVE GCD(_, _)
GCD(a, b) == IF b = 0 THEN a ELSE GCD(b, a % b)

Rat(num, den) ==
    LET g == GCD(Abs(num), den)
    IN  IF num = 0 THEN [n |-> 0, d |-> 1] ELSE [n |-> num \div g, d |-> den \div g]

RatOfInt(i) == [n |-> i, d |-> 1]

RatAdd(a, b) == Rat(a.n * b.d + b.n * a.d, a.d * b.d)

Min(a, b) == IF a < b THEN a ELSE b

RECURSIVE Prod(_)
Prod(s) == IF s = <<>> THEN 1 ELSE Head(s) * Prod(Tail(s))

Reverse(s) == [i \in 1..Len(s) |-> s[Len(s) + 1 - i]]

\* ---------------------------------------------------- trajectory generator
\* A user value is [it |-> has __iter__, v |-> its elements]; a scalar holds
\* itself as the single element of v.
Scalar(x) == [it |-> FALSE, v |-> <<x>>]
List(s) == [it |-> TRUE, v |-> s]

\* ensure_iterator: an iterable is returned as is, a scalar becomes [i]
ensure_iterator(i) == IF i.it THEN i.v ELSE <<i.v[1]>>

\* np.linspace(start, stop, npts) for npts >= 1, endpoints included
calcLinearPath(start, stop, npts) ==
    [i \in 1..npts |->
        IF npts = 1 THEN RatOfInt(start)
        ELSE Rat(start * (npts - 1) + (i - 1) * (stop - start), npts - 1)]

\* np.repeat(a, k): every element k times in a row
Repeat(a, k) == [i \in 1..(Len(a) * k) |-> a[((i - 1) \div k) + 1]]

\* np.tile(a, k): the whole sequence k times end to end
Tile(a, k) == [i \in 1..(Len(a) * k) |-> a[((i - 1) % Len(a)) + 1]]

\* slip: N[::-1][:len(N)-dim], one count too many
FasterCountsOffByOne(N, dim) == SubSeq(Reverse(N), 1, Len(N) - dim)

\* N[::-1][:len(N)-dim-1] for the 0-based dim: the counts of the dimensions
\* after dim, reversed
FasterCounts(N, dim) == SubSeq(Reverse(N), 1, Len(N) - dim - 1)

\* N[:dim] for the 0-based dim
SlowerCounts(N, dim) == SubSeq(N, 1, dim)

\* slip: the repeat and tile factors exchanged (dimension 0 fastest)
calculatePathSwapped(start, stop, npts, dim) ==
    LET a == calcLinearPath(start, stop, npts[dim + 1])
        x == FasterCounts(npts, dim)
        y == SlowerCounts(npts, dim)
    IN  Tile(Repeat(a, Prod(y)), Prod(x))

\* calculatePath(start, stop, npts, dim), dim 0-based as in the source
calculatePath(start, stop, npts, dim) ==
    LET a == calcLinearPath(start, stop, npts[dim + 1])
        x == FasterCounts(npts, dim)
        y == SlowerCounts(npts, dim)
    IN  Tile(Repeat(a, Prod(x)), Prod(y))

\* slip: a group's members put in front of those of the earlier dimensions
PrependGroup(pos, iter_pos) == iter_pos \o pos

\* for p in iter_pos: pos.append(p)
AppendGroup(pos, iter_pos) == pos \o iter_pos

\* The loop of ScanND.__call__ from dimension d (0-based) on, given what it
\* has appended so far. positioners[d] past the end raises IndexError.
RECURSIVE CallLoop(_, _, _, _, _, _, _)
CallLoop(positioners, start, stop, N, d, pos, paths) ==
    IF d >= Min(Min(Len(start), Len(stop)), Len(N))
    THEN [err |-> "none", pos |-> pos, paths |-> paths]
    ELSE IF d + 1 > Len(positioners)
    THEN [err |-> "IndexError", pos |-> pos, paths |-> paths]
    ELSE LET iter_pos == ensure_iterator(positioners[d + 1])
             path == calculatePath(start[d + 1], stop[d + 1], N, d)
         IN  CallLoop(positioners, start, stop, N, d + 1,
                      AppendGroup(pos, iter_pos),
                      paths \o [j \in 1..Len(iter_pos) |-> path])

\* ScanND.__call__ up to the assignment of self.positioners and self.paths
Generate(a) ==
    LET npts == ensure_iterator(a.npts)
        positioners == ensure_iterator(a.positioners)
        start == ensure_iterator(a.start)
        stop == ensure_iterator(a.stop)
        N == [i \in 1..Len(npts) |-> npts[i] + 1]
    IN  CallLoop(positioners, start, stop, N, 0, <<>>, <<>>)

\* slip: the new lists added to those the instance already holds
ExtendLists(old, new) == old \o new

\* self.positioners = pos and self.paths = paths: the new lists replace the old
AssignLists(old, new) == new

\* The caller's four arguments after the call: ensure_iterator and
\* np.asarray(npts) + 1 rebind the call's local names, and pos and paths are
\* new lists, so nothing is written to what the caller passed.
InputsAfterCall(a) == a

\* --------------------------------------------------------------- inputs
SeqsOfLen(S, n) == [1..n -> S]

PositionerArg == {Scalar(p) : p \in Positioner} \cup {List(<<"m1", "m2">>)}

\* a call with list arguments
ListInput(ps, b, e, n) ==
    [positioners |-> List(ps), start |-> List(b), stop |-> List(e), npts |-> List(n)]

\* a one-dimensional call written with bare scalars
ScalarInput(p, b, e, n) ==
    [positioners |-> Scalar(Scalar(p)), start |-> Scalar(b), stop |-> Scalar(e),
     npts |-> Scalar(n)]

DropLast(x) == List(SubSeq(x.v, 1, Len(x.v) - 1))

\* a is one of the generator's inputs: a well-formed call of D >= 1 groups,
\* starts, stops and sample counts; such a call with the last start or the
\* last group missing; or a one-dimensional call written with scalars
IsGenInput(a) ==
    \/ \E D \in 1..MaxDim :
         \E ps \in SeqsOfLen(PositionerArg, D), b \in SeqsOfLen(StartValues, D),
            e \in SeqsOfLen(StopValues, D), n \in SeqsOfLen(0..MaxCount, D) :
             \/ a = ListInput(ps, b, e, n)
             \/ D >= 2 /\ a = [ListInput(ps, b, e, n) EXCEPT !.start = DropLast(@)]
             \/ D >= 2 /\ a = [ListInput(ps, b, e, n) EXCEPT !.positioners = DropLast(@)]
    \/ \E p \in Positioner, b \in StartValues, e \in StopValues, n \in 0..MaxCount :
         a = ScalarInput(p, b, e, n)

NoArgs == [positioners |-> List(<<>>), start |-> List(<<>>), stop |-> List(<<>>),
           npts |-> List(<<>>)]

\* Calls followed through the whole life cycle
ScanInputs ==
    { ListInput(<<Scalar("m1"), Scalar("m2")>>, <<0, 1>>, <<2, 2>>, <<1, 1>>),
      ListInput(<<Scalar("m1"), Scalar("m2")>>, <<0>>, <<2, 2>>, <<1, 1>>),
      ListInput(<<Scalar("m1")>>, <<0, 0>>, <<2, 2>>, <<1, 1>>) }

\* ------------------------------------------------------------------ state
VARIABLES
    kind,             \* class of the instance: "AScan" or "DScan"
    pc,               \* where the thread of control is inside __call__ / run()
    args,             \* arguments of the last __call__
    viaCall,          \* the current run() was entered from __call__
    relPaths,         \* the paths as the generator last produced them
    positioners,      \* self._positioners
    paths,            \* self._paths
    start_positions,  \* self._start_positions
    run_id,           \* self._run_id
    last_data,        \* self._last_data: 0 is None, k the dataset of invocation k
    exc,              \* the exception raised inside the with block, or "none"
    tdErr,            \* the exception raised by postScan, or "none"
    i,                \* index of the loop the thread is in (1-based)
    polled,           \* the p.moving values read so far in this poll
    position,         \* positioner -> reported position
    setpoint,         \* positioner -> target of its last move
    moving,           \* positioner -> reports being in motion
    trajectory,       \* positioner -> the trajectory it was given
    engineIds,        \* the run ids passed to RunEngine.start_run, in order
    invocations,      \* number of __call__ / run() invocations so far
    log,              \* the steps of the current invocation, in order
    moves,            \* the move commands of the current invocation
    result,           \* what the last finished invocation raised
    sleeps,           \* sleep(0.1) calls of the current postScan
    before,           \* data, run_id and engine calls when the invocation began
    self_detectors,   \* self._detectors: None or a list
    self_triggers,    \* self._triggers: None or a list
    default_detectors, \* self._default_detectors
    default_triggers, \* self._default_triggers
    scan_args,        \* detectors and triggers of the last scan_args
    generated,        \* per argument list, what the generator first produced
    inputs            \* the caller's arguments as the last call left them

scanv == <<kind, positioners, paths, start_positions, run_id, last_data>>
hwv == <<position, setpoint, moving, trajectory>>
ghostv == <<args, viaCall, relPaths, invocations, before, generated, inputs>>
loopv == <<i, polled, sleeps>>
cfgv == <<self_detectors, self_triggers, default_detectors, default_triggers>>
vars == <<kind, pc, args, viaCall, relPaths, positioners, paths, start_positions,
          run_id, last_data, exc, tdErr, i, polled, position, setpoint, moving,
          trajectory, engineIds, invocations, log, moves, result, sleeps, before,
          self_detectors, self_triggers, default_detectors, default_triggers,
          scan_args, generated, inputs>>

\* an attribute that is None or holds a list
None == [set |-> FALSE, v |-> <<>>]
Some(l) == [set |-> TRUE, v |-> l]

Outcome(err, ctx) == [err |-> err, ctx |-> ctx]
Pending == Outcome("pending", "none")

\* Scan.__init__
InitScan ==
    /\ pc = "idle"
    /\ viaCall = FALSE
    /\ relPaths = <<>>
    /\ positioners = <<>>
    /\ paths = <<>>
    /\ start_positions = <<>>
    /\ run_id = 0
    /\ last_data = 0
    /\ exc = "none"
    /\ tdErr = "none"
    /\ i = 1
    /\ polled = <<>>
    /\ setpoint = position
    /\ moving = [p \in Positioner |-> FALSE]
    /\ trajectory = [p \in Positioner |-> <<>>]
    /\ engineIds = <<>>
    /\ invocations = 0
    /\ log = <<>>
    /\ moves = <<>>
    /\ result = Pending
    /\ sleeps = 0
    /\ before = [data |-> 0, run_id |-> 0, started |-> 0]
    /\ self_detectors = None
    /\ self_triggers = None
    /\ default_detectors = <<>>
    /\ default_triggers = <<>>
    /\ scan_args = [detectors |-> <<>>, triggers |-> <<>>]
    /\ generated = {}
    /\ inputs = NoArgs

\* A fresh AScan or DScan, with the positioners at rest somewhere
Init ==
    /\ kind \in {"AScan", "DScan"}
    /\ args = NoArgs
    /\ position \in [Positioner -> {RatOfInt(x) : x \in InitialPositions}]
    /\ InitScan

\* ------------------------------------------------ external collaborators
\* Positioner.move(target, wait=True): the positioner takes the target and
\* either has arrived when the call returns or is still in motion.
PositionerMove(p, target, arrived) ==
    /\ setpoint' = [setpoint EXCEPT ![p] = target]
    /\ position' = IF arrived THEN [position EXCEPT ![p] = target] ELSE position
    /\ moving' = [moving EXCEPT ![p] = ~arrived]

\* Where the positioners of a scan are when RunEngine.start_run returns
\* ("last": the scan went through) or raises ("first", "nowhere").
EngineDrive(pos, reached) ==
    [p \in Positioner |->
        IF (\E k \in 1..Len(pos) : pos[k] = p) /\ trajectory[p] # <<>>
           /\ reached # "nowhere"
        THEN IF reached = "last" THEN trajectory[p][Len(trajectory[p])]
             ELSE trajectory[p][1]
        ELSE position[p]]

\* A positioner in motion reaches its setpoint and stops.
MotorStop(p) ==
    /\ moving[p]
    /\ moving' = [moving EXCEPT ![p] = FALSE]
    /\ position' = [position EXCEPT ![p] = setpoint[p]]
    /\ UNCHANGED <<cfgv, scan_args, scanv, ghostv, loopv, pc, exc, tdErr, setpoint,
                   trajectory,
                   engineIds, log, moves, result>>

\* ------------------------------------------------------------- Scan.run
\* the run id handed to start_run: self._run_id + 1
NextRunId(rid) == rid + 1

\* slip: __exit__ returning True
ExitSwallows == TRUE

\* __exit__ returns False: an exception of the with block is not swallowed
ExitSuppresses == FALSE

\* slip: an exception of postScan dropped in favour of the one in flight
PropagatedBodyOnly(bodyExc, exitExc, chained) == Outcome(bodyExc, "none")

\* What leaves "with self:": an exception of __exit__ replaces the one in
\* flight; otherwise the one in flight goes on. The replaced exception stays
\* reachable (as __context__) only where the interpreter chains exceptions
\* implicitly: Python 3 does, Python 2 (line 1 keeps the module usable
\* there) does not.
Propagated(bodyExc, exitExc, chained) ==
    IF exitExc # "none" THEN Outcome(exitExc, IF chained THEN bodyExc ELSE "none")
    ELSE IF ExitSuppresses THEN Outcome("none", "none")
    ELSE Outcome(bodyExc, "none")

\* slip: self.data reset when start_run raises
DataClearedOnError(old, new, raised) == IF raised THEN 0 ELSE new

\* self.data = start_run(...): assigned only when start_run returns
DataAfterStartRun(old, new, raised) == IF raised THEN old ELSE new

\* DScan.preScan: every path shifted by its positioner's start position
DScanPaths(ps, starts) ==
    [k \in 1..Min(Len(ps), Len(starts)) |->
        [j \in 1..Len(ps[k]) |-> RatAdd(ps[k][j], starts[k])]]

\* slip: every positioner sent to the first start position
MoveTargetFirst(starts, k) == starts[1]

\* the target of the k-th move of DScan.postScan
MoveTarget(starts, k) == starts[k]

\* slip: all() in place of any()
anyAsAll(flags) == \A k \in 1..Len(flags) : flags[k]

\* slip: the last positioner left out of the poll
anyButLast(flags) == \E k \in 1..(Len(flags) - 1) : flags[k]

\* any([...]) over the flags read in one poll
any(flags) == \E k \in 1..Len(flags) : flags[k]

\* slip: a per-scan trigger list taking the place of the defaults
TriggersReplaceDefaults(own, defaults) == IF ~own.set THEN defaults ELSE own.v

\* the triggers property: the defaults, after the per-scan list if one is set
EffectiveTriggers(own, defaults) == IF ~own.set THEN defaults ELSE own.v \o defaults

\* the detectors property: the defaults, after the per-scan list if one is set
EffectiveDetectors(own, defaults) == IF ~own.set THEN defaults ELSE own.v \o defaults

\* the setters of detectors, triggers, default_detectors and default_triggers,
\* used between scans
SetDetectors(l) ==
    /\ pc = "idle"
    /\ self_detectors' = l
    /\ UNCHANGED <<scanv, ghostv, loopv, hwv, pc, exc, tdErr, engineIds, log, moves,
                   result, self_triggers, default_detectors, default_triggers,
                   scan_args>>

SetTriggers(l) ==
    /\ pc = "idle"
    /\ self_triggers' = l
    /\ UNCHANGED <<scanv, ghostv, loopv, hwv, pc, exc, tdErr, engineIds, log, moves,
                   result, self_detectors, default_detectors, default_triggers,
                   scan_args>>

SetDefaultDetectors(l) ==
    /\ pc = "idle"
    /\ default_detectors' = l
    /\ UNCHANGED <<scanv, ghostv, loopv, hwv, pc, exc, tdErr, engineIds, log, moves,
                   result, self_detectors, self_triggers, default_triggers,
                   scan_args>>

SetDefaultTriggers(l) ==
    /\ pc = "idle"
    /\ default_triggers' = l
    /\ UNCHANGED <<scanv, ghostv, loopv, hwv, pc, exc, tdErr, engineIds, log, moves,
                   result, self_detectors, self_triggers, default_detectors,
                   scan_args>>

\* slip: the last positioner left without its trajectory
TrajectoryPairsButLast == Min(Len(positioners), Len(paths)) - 1

\* the pairs of zip(self.positioners, self.paths)
TrajectoryPairs == Min(Len(positioners), Len(paths))

\* slip: checkPaths called under the protection of postScan
AfterCheckPathsErrorTornDown == "postScan"

\* checkPaths is called before the with statement: its exception leaves run()
AfterCheckPathsError == "idle"

Begin ==
    /\ pc = "idle"
    /\ invocations < MaxRuns
    /\ invocations' = invocations + 1
    /\ exc' = "none"
    /\ tdErr' = "none"
    /\ log' = <<>>
    /\ moves' = <<>>
    /\ i' = 1
    /\ polled' = <<>>
    /\ sleeps' = 0
    /\ before' = [data |-> last_data, run_id |-> run_id, started |-> Len(engineIds)]

\* ScanND.__call__(positioners, start, stop, npts)
Call(a) ==
    /\ Begin
    /\ args' = a
    /\ viaCall' = TRUE
    /\ LET g == Generate(a)
       IN  IF g.err # "none"
           THEN /\ result' = Outcome(g.err, "none")
                /\ pc' = "idle"
                /\ UNCHANGED <<positioners, paths, relPaths, generated>>
           ELSE /\ positioners' = AssignLists(positioners, g.pos)
                /\ paths' = AssignLists(paths, g.paths)
                /\ relPaths' = g.paths
                /\ generated' =
                       IF \E r \in generated : r.a = a THEN generated
                       ELSE generated \cup {[a |-> a, pos |-> positioners',
                                              paths |-> paths', at |-> invocations']}
                /\ result' = Pending
                /\ pc' = "checkPaths"
    /\ inputs' = InputsAfterCall(a)
    /\ UNCHANGED <<cfgv, scan_args, kind, start_positions, run_id, last_data, hwv,
                   engineIds>>

\* Scan.run() called on the instance as it is
Run ==
    /\ Begin
    /\ viaCall' = FALSE
    /\ result' = Pending
    /\ pc' = "checkPaths"
    /\ UNCHANGED <<cfgv, scan_args, scanv, args, relPaths, generated, inputs, hwv,
                   engineIds>>

\* self.checkPaths(): a hook, outside the with block
CheckPaths(ok) ==
    /\ pc = "checkPaths"
    /\ log' = Append(log, "checkPaths")
    /\ IF ok THEN pc' = "preScan" /\ UNCHANGED result
       ELSE pc' = AfterCheckPathsError /\ result' = Outcome("ValidationError", "none")
    /\ UNCHANGED <<cfgv, scan_args, scanv, ghostv, loopv, hwv, exc, tdErr, engineIds,
                   moves>>

\* __enter__: self.preScan(). DScan captures positions and shifts the paths,
\* then AScan.preScan writes to the log book, which may fail; an exception of
\* __enter__ leaves run() without __exit__ being called.
PreScan(logOk) ==
    /\ pc = "preScan"
    /\ log' = Append(log, "preScan")
    /\ IF kind = "DScan"
       THEN LET starts == [k \in 1..Len(positioners) |-> position[positioners[k]]]
            IN  /\ start_positions' = starts
                /\ paths' = DScanPaths(paths, starts)
       ELSE UNCHANGED <<start_positions, paths>>
    /\ IF logOk THEN pc' = "setupDetectors" /\ UNCHANGED result
       ELSE pc' = "idle" /\ result' = Outcome("LogError", "none")
    /\ UNCHANGED <<cfgv, scan_args, kind, positioners, run_id, last_data, ghostv,
                   loopv, hwv, exc,
                   tdErr, engineIds, moves>>

\* self.setupDetectors(): a hook
SetupDetectors(ok) ==
    /\ pc = "setupDetectors"
    /\ log' = Append(log, "setupDetectors")
    /\ IF ok THEN pc' = "setupTriggers" /\ UNCHANGED exc
       ELSE pc' = "postScan" /\ exc' = "SetupDetectorsError"
    /\ UNCHANGED <<cfgv, scan_args, scanv, ghostv, loopv, hwv, tdErr, engineIds, moves,
                   result>>

\* self.setupTriggers(): a hook
SetupTriggers(ok) ==
    /\ pc = "setupTriggers"
    /\ log' = Append(log, "setupTriggers")
    /\ IF ok THEN pc' = "setTrajectory" /\ UNCHANGED exc
       ELSE pc' = "postScan" /\ exc' = "SetupTriggersError"
    /\ UNCHANGED <<cfgv, scan_args, scanv, ghostv, loopv, hwv, tdErr, engineIds, moves,
                   result>>

\* for pos, path in zip(self.positioners, self.paths): pos.set_trajectory(path)
SetTrajectory(ok) ==
    /\ pc = "setTrajectory"
    /\ i <= TrajectoryPairs
    /\ log' = Append(log, "set_trajectory")
    /\ IF ok
       THEN /\ trajectory' = [trajectory EXCEPT ![positioners[i]] = paths[i]]
            /\ i' = i + 1
            /\ UNCHANGED <<pc, exc>>
       ELSE /\ pc' = "postScan"
            /\ exc' = "TrajectoryError"
            /\ UNCHANGED <<trajectory, i>>
    /\ UNCHANGED <<cfgv, scan_args, scanv, ghostv, polled, sleeps, position, setpoint,
                   moving,
                   tdErr, engineIds, moves, result>>

\* self.data = self._run_eng.start_run(self._run_id + 1, scan_args=scan_args)
StartRun(reached) ==
    /\ pc = "setTrajectory"
    /\ i > TrajectoryPairs
    /\ log' = Append(log, "start_run")
    /\ engineIds' = Append(engineIds, NextRunId(run_id))
    /\ scan_args' = [detectors |-> EffectiveDetectors(self_detectors, default_detectors),
                     triggers |-> EffectiveTriggers(self_triggers, default_triggers)]
    /\ position' = EngineDrive(positioners, reached)
    /\ setpoint' = position'
    /\ last_data' = DataAfterStartRun(last_data, invocations, reached # "last")
    /\ exc' = IF reached = "last" THEN exc ELSE "ExecutionError"
    /\ pc' = "postScan"
    /\ UNCHANGED <<cfgv, kind, positioners, paths, start_positions, run_id, ghostv, loopv,
                   moving, trajectory, tdErr, moves, result>>

\* __exit__: self.postScan(). The base hook runs first (AScan.postScan is
\* Scan.postScan); an AScan is done with it, a DScan goes on to move back.
PostScan(ok) ==
    /\ pc = "postScan"
    /\ log' = Append(log, "postScan")
    /\ IF ~ok THEN pc' = "exit" /\ tdErr' = "TeardownError"
       ELSE IF kind = "DScan" THEN pc' = "moveBack" /\ UNCHANGED tdErr
       ELSE pc' = "exit" /\ UNCHANGED tdErr
    /\ i' = 1
    /\ UNCHANGED <<cfgv, scan_args, scanv, ghostv, polled, sleeps, hwv, exc, engineIds,
                   moves, result>>

\* for pos, start in zip(self.positioners, self._start_positions):
\*     pos.move(start, wait=True)
MoveBack(how) ==
    /\ pc = "moveBack"
    /\ i <= Min(Len(positioners), Len(start_positions))
    /\ log' = Append(log, "move")
    /\ IF how = "raises"
       THEN /\ pc' = "exit"
            /\ tdErr' = "MoveError"
            /\ UNCHANGED <<position, setpoint, moving, moves, i>>
       ELSE /\ PositionerMove(positioners[i], MoveTarget(start_positions, i),
                              how = "arrived")
            /\ moves' = Append(moves, [p |-> positioners[i],
                                       to |-> MoveTarget(start_positions, i)])
            /\ i' = i + 1
            /\ UNCHANGED <<pc, tdErr>>
    /\ UNCHANGED <<cfgv, scan_args, scanv, ghostv, polled, sleeps, trajectory, exc,
                   engineIds, result>>

\* the moves are all issued: on to "while any([p.moving for p in ...])"
MovesDone ==
    /\ pc = "moveBack"
    /\ i > Min(Len(positioners), Len(start_positions))
    /\ pc' = "poll"
    /\ i' = 1
    /\ polled' = <<>>
    /\ UNCHANGED <<cfgv, scan_args, scanv, ghostv, sleeps, hwv, exc, tdErr, engineIds,
                   log, moves,
                   result>>

\* one p.moving read of the list comprehension
PollRead ==
    /\ pc = "poll"
    /\ i <= Len(positioners)
    /\ polled' = Append(polled, moving[positioners[i]])
    /\ i' = i + 1
    /\ UNCHANGED <<cfgv, scan_args, scanv, ghostv, sleeps, hwv, pc, exc, tdErr,
                   engineIds, log, moves,
                   result>>

\* the loop condition on the flags read: sleep again, or postScan returns
PollTest ==
    /\ pc = "poll"
    /\ i > Len(positioners)
    /\ pc' = IF any(polled) THEN "sleep" ELSE "exit"
    /\ log' = Append(log, IF \E k \in 1..Len(polled) : polled[k]
                          THEN "poll:moving" ELSE "poll:stopped")
    /\ UNCHANGED <<cfgv, scan_args, scanv, ghostv, loopv, hwv, exc, tdErr, engineIds,
                   moves, result>>

\* sleep(0.1); a positioner is in motion for at most MaxPolls intervals
Sleep ==
    /\ pc = "sleep"
    /\ sleeps < MaxPolls
    /\ sleeps' = sleeps + 1
    /\ log' = Append(log, "sleep")
    /\ pc' = "poll"
    /\ i' = 1
    /\ polled' = <<>>
    /\ IF sleeps' = MaxPolls
       THEN /\ moving' = [p \in Positioner |-> FALSE]
            /\ position' = [p \in Positioner |->
                               IF moving[p] THEN setpoint[p] ELSE position[p]]
       ELSE UNCHANGED <<moving, position>>
    /\ UNCHANGED <<cfgv, scan_args, scanv, ghostv, setpoint, trajectory, exc, tdErr,
                   engineIds, moves,
                   result>>

\* the with statement is left: run() returns or raises
Exit(chained) ==
    /\ pc = "exit"
    /\ result' = Propagated(exc, tdErr, chained)
    /\ pc' = "idle"
    /\ UNCHANGED <<cfgv, scan_args, scanv, ghostv, loopv, hwv, exc, tdErr, engineIds,
                   log, moves>>

Next ==
    \/ \E a \in ScanInputs : Call(a)
    \/ Run
    \/ \E ok \in BOOLEAN : CheckPaths(ok)
    \/ \E ok \in BOOLEAN : PreScan(ok)
    \/ \E ok \in BOOLEAN : SetupDetectors(ok)
    \/ \E ok \in BOOLEAN : SetupTriggers(ok)
    \/ \E ok \in BOOLEAN : SetTrajectory(ok)
    \/ \E reached \in {"last", "first", "nowhere"} : StartRun(reached)
    \/ \E ok \in BOOLEAN : PostScan(ok)
    \/ \E how \in {"arrived", "in_motion", "raises"} : MoveBack(how)
    \/ MovesDone
    \/ PollRead
    \/ PollTest
    \/ Sleep
    \/ \E chained \in BOOLEAN : Exit(chained)
    \/ \E p \in Positioner : MotorStop(p)

Spec == Init /\ [][Next]_vars

\* The generator on its own: a fresh scan about to be called with any of the
\* generator's inputs; the call is followed up to the entry of run().
GenInit ==
    /\ kind = "AScan"
    /\ IsGenInput(args)
    /\ position = [p \in Positioner |-> RatOfInt(0)]
    /\ InitScan

GenNext == Call(args)

GenSpec == GenInit /\ [][GenNext]_vars

\* -------------------------------------------------- generator properties
\* the four arguments, normalised, have one common length D >= 1
EqualLengths(a) ==
    LET D == Len(ensure_iterator(a.npts))
    IN  /\ D >= 1
        /\ Len(ensure_iterator(a.positioners)) = D
        /\ Len(ensure_iterator(a.start)) = D
        /\ Len(ensure_iterator(a.stop)) = D

Called == viaCall /\ invocations > 0

ArgGroup(a, d) == ensure_iterator(a.positioners)[d]
GroupSize(a, d) == IF ArgGroup(a, d).it THEN Len(ArgGroup(a, d).v) ELSE 1
ArgCount(a, d) == ensure_iterator(a.npts)[d] + 1
ArgStart(a, d) == ensure_iterator(a.start)[d]
ArgStop(a, d) == ensure_iterator(a.stop)[d]
ArgDims(a) == Len(ensure_iterator(a.npts))

RECURSIVE SumSizes(_, _)
SumSizes(a, d) == IF d = 0 THEN 0 ELSE GroupSize(a, d) + SumSizes(a, d - 1)

RECURSIVE ProdCounts(_, _, _)
ProdCounts(a, lo, hi) == IF lo > hi THEN 1 ELSE ArgCount(a, lo) * ProdCounts(a, lo + 1, hi)

\* the dimension (1-based) the k-th output positioner belongs to
DimOf(a, k) == CHOOSE d \in 1..ArgDims(a) : SumSizes(a, d - 1) < k /\ k <= SumSizes(a, d)

\* x is the j-th (0-based) of n evenly spaced points from b to e inclusive
IsLinearPoint(x, b, e, n, j) ==
    IF n = 1 THEN x = RatOfInt(b)
    ELSE x.n * (n - 1) = x.d * (b * (n - 1) + j * (e - b))

\* C4: for every valid set of dimension specs the generator returns one
\* trajectory per positioner, as many as the groups hold together, each of
\* length prod_d (sample_counts[d] + 1).
C4_TrajectoryLengths ==
    (Called /\ EqualLengths(args)) =>
        /\ pc = "checkPaths"
        /\ Len(positioners) = Len(paths)
        /\ Len(paths) = SumSizes(args, ArgDims(args))
        /\ \A k \in 1..Len(paths) : Len(paths[k]) = ProdCounts(args, 1, ArgDims(args))

C4_Witness ==
    /\ Called /\ EqualLengths(args) /\ pc = "checkPaths"
    /\ ArgDims(args) = 2
    /\ Len(positioners) = 3
    /\ Len(paths[1]) = 6

\* C5: the trajectories are in row-major order: with n_d = count_d + 1 the
\* trajectory of dimension d at flat index f is the ((f div prod_{j>d} n_j)
\* mod n_d)-th of the n_d evenly spaced points from start_d to stop_d.
C5_RowMajorOrder ==
    (Called /\ EqualLengths(args) /\ pc = "checkPaths") =>
        \A k \in 1..Len(paths) :
            LET d == DimOf(args, k)
                n == ArgCount(args, d)
                inner == ProdCounts(args, d + 1, ArgDims(args))
            IN  \A f \in 0..(Len(paths[k]) - 1) :
                    IsLinearPoint(paths[k][f + 1], ArgStart(args, d), ArgStop(args, d),
                                  n, (f \div inner) % n)

\* the example D0 = (0, 1, 1), D1 = (0, 10, 2)
C5_Witness ==
    /\ Called /\ pc = "checkPaths"
    /\ args = [positioners |-> List(<<Scalar("m1"), Scalar("m2")>>),
               start |-> List(<<0, 0>>), stop |-> List(<<1, 10>>),
               npts |-> List(<<1, 2>>)]
    /\ paths = << <<RatOfInt(0), RatOfInt(0), RatOfInt(0),
                    RatOfInt(1), RatOfInt(1), RatOfInt(1)>>,
                  <<RatOfInt(0), RatOfInt(5), RatOfInt(10),
                    RatOfInt(0), RatOfInt(5), RatOfInt(10)>> >>

\* A differential scan whose thread always gets to run and whose positioners,
\* once in motion, stop.
FairInit ==
    /\ kind = "DScan"
    /\ args = NoArgs
    /\ position = [p \in Positioner |-> RatOfInt(IF p = "m1" THEN 0 ELSE 3)]
    /\ InitScan

FairSpec ==
    /\ FairInit /\ [][Next]_vars
    /\ WF_vars(MovesDone) /\ WF_vars(PollRead) /\ WF_vars(PollTest)
    /\ WF_vars(Sleep) /\ WF_vars(\E chained \in BOOLEAN : Exit(chained))
    /\ \A p \in Positioner : WF_vars(MotorStop(p))

\* -------------------------------------------------- life cycle properties
RECURSIVE Count(_, _)
Count(s, e) ==
    IF s = <<>> THEN 0 ELSE (IF Head(s) = e THEN 1 ELSE 0) + Count(Tail(s), e)

Logged(e) == \E k \in 1..Len(log) : log[k] = e

\* the last invocation is over (run() has returned or raised)
Finished == pc = "idle" /\ invocations > 0

\* checkPaths and preScan went through: the with block was entered
BodyEntered == Logged("setupDetectors")

\* C1: when validation and preScan succeed postScan is invoked exactly once,
\* whether the block completes or a step of it raises; an error of the block
\* is what run() raises once postScan has run (and returned).
C1_PostScanOnce ==
    /\ Count(log, "postScan") <= 1
    /\ (Finished /\ BodyEntered) =>
          /\ Count(log, "postScan") = 1
          /\ tdErr = "none" => result = Outcome(exc, "none")

C1_Witness ==
    /\ Finished /\ BodyEntered
    /\ exc = "ExecutionError" /\ tdErr = "none"
    /\ result.err = "ExecutionError"
    /\ Count(log, "postScan") = 1

\* C2: the run ids handed to the engine by one instance start at 1 and
\* strictly increase from one run to the next.
C2_RunIdsIncrease ==
    /\ Len(engineIds) >= 1 => engineIds[1] = 1
    /\ \A k \in 2..Len(engineIds) : engineIds[k] > engineIds[k - 1]

\* C3: after a run in which the engine was invoked the run_id accessor
\* returns the id last passed to the engine.
C3_RunIdIsLastUsed ==
    (Finished /\ Logged("start_run")) => run_id = engineIds[Len(engineIds)]

Shifted(path, by) == [j \in 1..Len(path) |-> RatAdd(path[j], by)]

\* C6: in every run() of a differential scan the trajectory of positioner k
\* is the generator's relative trajectory plus the position captured for it
\* at this run's preScan.
C6_RelativePlusStart ==
    (kind = "DScan" /\ pc \in {"setupDetectors", "setupTriggers", "setTrajectory"}) =>
        /\ Len(paths) = Len(relPaths)
        /\ \A k \in 1..Len(paths) : paths[k] = Shifted(relPaths[k], start_positions[k])

\* postScan of a differential scan has returned
DScanTornDown ==
    /\ kind = "DScan"
    /\ tdErr = "none"
    /\ pc = "exit" \/ (pc = "idle" /\ Logged("postScan"))

\* C7: once postScan of a differential scan has completed every positioner
\* has been commanded back to, and is at, the position captured at preScan,
\* whether the block succeeded or raised.
C7_BackAtStart ==
    DScanTornDown =>
        /\ Len(moves) = Len(positioners)
        /\ \A k \in 1..Len(positioners) :
              /\ moves[k] = [p |-> positioners[k], to |-> start_positions[k]]
              /\ position[positioners[k]] = start_positions[k]

C7_Witness ==
    /\ DScanTornDown
    /\ exc = "ExecutionError"
    /\ Len(positioners) = 2
    /\ start_positions[1] # start_positions[2]
    /\ Logged("poll:moving")

\* C8: postScan of a differential scan returns only after a poll, later than
\* every move command, in which all positioners reported not moving; none is
\* in motion when it returns.
C8_ReturnsWhenStopped ==
    DScanTornDown =>
        /\ \A k \in 1..Len(positioners) : ~moving[positioners[k]]
        /\ log[Len(log)] = "poll:stopped"
        /\ Count(log, "move") = Len(positioners)
        /\ \A j, k \in 1..Len(log) :
              (log[j] = "move" /\ log[k] \in {"poll:moving", "poll:stopped"}) => j < k

C8_Witness ==
    /\ DScanTornDown
    /\ Len(positioners) = 2
    /\ Count(log, "poll:moving") = 1
    /\ Count(log, "move") = 2

\* C9: the poll loop sleeps once for every poll that found a positioner in
\* motion and returns at the first poll that found none; once all moves are
\* issued postScan eventually returns.
C9_Polls ==
    DScanTornDown =>
        /\ sleeps = Count(log, "poll:moving")
        /\ Count(log, "sleep") = sleeps
        /\ Count(log, "poll:stopped") = 1

C9_PollLoopEnds ==
    /\ []C9_Polls
    /\ (pc \in {"poll", "sleep"}) ~> (pc = "exit")

C9_Witness ==
    /\ DScanTornDown
    /\ sleeps = MaxPolls
    /\ Count(log, "poll:moving") = MaxPolls

\* C10: a call with mismatched lengths of positioners, starts, stops and
\* sample counts is rejected before preScan, set_trajectory or start_run.
C10_MismatchRejected ==
    (Called /\ ~EqualLengths(args)) =>
        /\ ~Logged("preScan") /\ ~Logged("set_trajectory") /\ ~Logged("start_run")
        /\ Finished => result.err # "none"

\* C11: when start_run raises, the data accessor keeps the value it had
\* before this run(), and the error leaves run() only after postScan ran.
C11_DataKeptOnEngineError ==
    (exc = "ExecutionError") =>
        /\ last_data = before.data
        /\ Finished => Logged("postScan")
        /\ (Finished /\ tdErr = "none") => result = Outcome("ExecutionError", "none")

C11_Witness ==
    /\ Finished
    /\ exc = "ExecutionError"
    /\ before.data # 0
    /\ last_data = before.data
    /\ result.err = "ExecutionError"

\* C12: when the engine returned a dataset and postScan then fails, run()
\* raises the teardown failure and the data accessor returns that dataset.
C12_DataKeptOnTeardownError ==
    (Finished /\ Logged("start_run") /\ exc = "none" /\ tdErr # "none") =>
        /\ result.err = tdErr
        /\ last_data = invocations

C12_Witness ==
    /\ Finished /\ Logged("start_run") /\ exc = "none"
    /\ kind = "DScan"
    /\ tdErr = "MoveError"
    /\ result.err = "MoveError"
    /\ last_data = invocations

\* C13: when a step of the block raises and postScan raises too, what run()
\* raises surfaces both errors.
C13_BothErrorsSurface ==
    (Finished /\ exc # "none" /\ tdErr # "none") =>
        /\ result.err = tdErr
        /\ result.ctx = exc

\* C14: in an absolute scan a failure of the log book during pre-scan does
\* not abort the scan: the setup hooks, the trajectory assignment, the engine
\* call and postScan still take place.
C14_SinkFailureDoesNotAbort ==
    (kind = "AScan" /\ Finished /\ Logged("preScan")) =>
        /\ result.err # "LogError"
        /\ Logged("setupDetectors")
        /\ Logged("postScan")

\* C17: a failure after validation, that of preScan included, leaves run()
\* only after postScan has been executed.
C17_TeardownAfterPreScanFailure ==
    (Finished /\ Logged("preScan")) => Logged("postScan")

\* the place of a step in the order of run()
PhaseRank(e) ==
    CASE e = "checkPaths" -> 1
      [] e = "preScan" -> 2
      [] e = "setupDetectors" -> 3
      [] e = "setupTriggers" -> 4
      [] e = "set_trajectory" -> 5
      [] e = "start_run" -> 6
      [] e = "postScan" -> 7
      [] e = "move" -> 8
      [] OTHER -> 9

\* C16: the phases of one run() follow each other in the order checkPaths,
\* preScan, setupDetectors, setupTriggers, set_trajectory per positioner,
\* start_run, postScan, none of them twice; when the engine is started every
\* positioner holds its own trajectory, and postScan begins after start_run.
C16_PhasesInOrder ==
    /\ \A j, k \in 1..Len(log) : j < k => PhaseRank(log[j]) <= PhaseRank(log[k])
    /\ \A e \in {"checkPaths", "preScan", "setupDetectors", "setupTriggers",
                 "start_run", "postScan"} : Count(log, e) <= 1
    /\ Logged("start_run") =>
          /\ SubSeq(log, 1, 4) = <<"checkPaths", "preScan", "setupDetectors",
                                   "setupTriggers">>
          /\ Count(log, "set_trajectory") = Len(positioners)
          /\ \A k \in 1..Len(positioners) : trajectory[positioners[k]] = paths[k]
    /\ Logged("postScan") => SubSeq(log, 1, 3) = <<"checkPaths", "preScan", "setupDetectors">>

C16_Witness ==
    /\ Finished
    /\ kind = "DScan"
    /\ result = Outcome("none", "none")
    /\ Len(positioners) = 2
    /\ Logged("start_run") /\ Logged("postScan")

\* C18: when checkPaths raises, run() raises without preScan, postScan, the
\* setup hooks, set_trajectory or the engine being invoked, and the dataset
\* and run_id are what they were.
C18_ValidationFailureFrame ==
    (result.err = "ValidationError") =>
        /\ pc = "idle"
        /\ log = <<"checkPaths">>
        /\ last_data = before.data
        /\ run_id = before.run_id
        /\ Len(engineIds) = before.started

C18_Witness ==
    /\ Finished
    /\ result.err = "ValidationError"
    /\ before.data # 0
    /\ before.started > 0

\* An absolute scan whose detector and trigger lists are set between scans
Configure ==
    \/ \E l \in {None, Some(<<"d1">>)} : SetDetectors(l)
    \/ \E l \in {None, Some(<<"t1">>)} : SetTriggers(l)
    \/ \E l \in {<<>>, <<"d0">>} : SetDefaultDetectors(l)
    \/ \E l \in {<<>>, <<"t0">>} : SetDefaultTriggers(l)

CfgInit ==
    /\ kind = "AScan"
    /\ args = NoArgs
    /\ position = [p \in Positioner |-> RatOfInt(IF p = "m1" THEN 0 ELSE 3)]
    /\ InitScan

CfgInput == ListInput(<<Scalar("m1"), Scalar("m2")>>, <<0, 1>>, <<2, 2>>, <<1, 1>>)

CfgNext ==
    \/ Configure
    \/ Call(CfgInput)
    \/ Run
    \/ \E ok \in BOOLEAN : CheckPaths(ok)
    \/ \E ok \in BOOLEAN : PreScan(ok)
    \/ \E ok \in BOOLEAN : SetupDetectors(ok)
    \/ \E ok \in BOOLEAN : SetupTriggers(ok)
    \/ \E ok \in BOOLEAN : SetTrajectory(ok)
    \/ \E reached \in {"last", "first", "nowhere"} : StartRun(reached)
    \/ \E ok \in BOOLEAN : PostScan(ok)
    \/ \E chained \in BOOLEAN : Exit(chained)

CfgSpec == CfgInit /\ [][CfgNext]_vars

\* C15: the detectors and the triggers the engine is given are the per-scan
\* list followed by the default list, and the default list alone when no
\* per-scan list is set.
C15_EffectiveLists ==
    (pc # "idle" /\ Logged("start_run")) =>
        /\ scan_args.detectors =
              (IF self_detectors.set THEN self_detectors.v ELSE <<>>) \o default_detectors
        /\ scan_args.triggers =
              (IF self_triggers.set THEN self_triggers.v ELSE <<>>) \o default_triggers

C15_Witness ==
    /\ pc # "idle" /\ Logged("start_run")
    /\ scan_args.detectors = <<"d0">>
    /\ scan_args.triggers = <<"t1", "t0">>
    /\ ~self_detectors.set

\* the members of the group of dimension d, in the order they were given
GroupMembers(a, d) == ensure_iterator(ArgGroup(a, d))

\* C19: the positioners of one group get the same trajectory, element for
\* element, and the output lists the positioners dimension by dimension, each
\* group in the order it was given.
C19_GroupsShareTrajectory ==
    (Called /\ EqualLengths(args) /\ pc = "checkPaths") =>
        /\ Len(positioners) = SumSizes(args, ArgDims(args))
        /\ \A k \in 1..Len(positioners) :
              positioners[k] =
                  GroupMembers(args, DimOf(args, k))[k - SumSizes(args, DimOf(args, k) - 1)]
        /\ \A k1, k2 \in 1..Len(paths) :
              DimOf(args, k1) = DimOf(args, k2) => paths[k1] = paths[k2]

C19_Witness ==
    /\ Called /\ EqualLengths(args) /\ pc = "checkPaths"
    /\ ArgDims(args) = 2
    /\ GroupMembers(args, 1) = <<"m1", "m2">>
    /\ positioners = <<"m1", "m2", "m1">>
    /\ paths[1] = paths[2]
    /\ paths[2] # paths[3]

====
